---- MODULE Spec2Model ----
(***************************************************************************)
(* Model of src/http_server.py: a single-connection HTTP server whose      *)
(* loop receives raw text, decodes it into a Request (process_request),    *)
(* routes it to a handler (handle_request) and writes the Response back    *)
(* (send_response).  Text is modelled by TLA+ strings, Python values by    *)
(* tagged records, Python dicts by sequences of key/value records kept in  *)
(* insertion order, and an uncaught Python exception by the loop position  *)
(* "crashed" together with the exception's name.  The requests and the     *)
(* responses are ASCII, so the bytes on the wire are written as the text   *)
(* they encode.  Operators take the values they branch on as parameters    *)
(* instead of naming them in a LET.                                        *)
(***************************************************************************)
EXTENDS Integers, Sequences, FiniteSets, TLC

VARIABLES pc, client, raw_request, request, response, data, failure,
          invoked, collections, film, nreceived, nsent

vars == <<pc, client, raw_request, request, response, data, failure,
          invoked, collections, film, nreceived, nsent>>

(***************************************************************************)
(* Bounds of the model.                                                    *)
(***************************************************************************)
MaxRequests == 2
MaxHeaders == 2
MaxLen == 3

(***************************************************************************)
(* Program constants.                                                      *)
(***************************************************************************)
CRLF == "\r\n"

HOST == "127.0.0.1"

PORT == 7777

\* STATUS_CODES with the reason phrase of RFC 9110 for 405
STATUS_CODES_Rfc == [c \in {200, 404, 405} |->
                       CASE c = 200 -> "OK"
                         [] c = 404 -> "Not Found"
                         [] c = 405 -> "Method Not Allowed"]

STATUS_CODES == [c \in {200, 404, 405} |->
                   CASE c = 200 -> "OK"
                     [] c = 404 -> "Not Found"
                     [] c = 405 -> "Not Allowed"]

(***************************************************************************)
(* Text: the str operations of Python the program uses.                    *)
(***************************************************************************)
Char(s, i) == SubSeq(s, i, i)

\* the least element of a set of indices, 0 for the empty set
FirstOf(hits) == IF hits = {} THEN 0 ELSE CHOOSE i \in hits : \A j \in hits : i <= j

\* str.find, 1-based; 0 when sep does not occur in s
Find(s, sep) ==
    FirstOf({i \in 1..(Len(s) - Len(sep) + 1) : SubSeq(s, i, i + Len(sep) - 1) = sep})

RECURSIVE Split(_, _)
RECURSIVE SplitAt(_, _, _)
\* the pieces of s, whose first occurrence of sep is at i (0: there is none)
SplitAt(s, sep, i) ==
    IF i = 0 THEN <<s>>
    ELSE <<SubSeq(s, 1, i - 1)>> \o Split(SubSeq(s, i + Len(sep), Len(s)), sep)

\* str.split(sep): the pieces between the non-overlapping occurrences of sep
Split(s, sep) == SplitAt(s, sep, Find(s, sep))

RECURSIVE Join(_, _)
\* sep.join(parts)
Join(parts, sep) ==
    IF parts = <<>> THEN ""
    ELSE IF Len(parts) = 1 THEN parts[1]
    ELSE parts[1] \o sep \o Join(Tail(parts), sep)

Digits == "0123456789"

RECURSIVE NatStr(_)
NatStr(n) == IF n < 10 THEN Char(Digits, n + 1)
             ELSE NatStr(n \div 10) \o Char(Digits, (n % 10) + 1)

\* str(int)
IntStr(n) == IF n < 0 THEN "-" \o NatStr(-n) ELSE NatStr(n)

\* the printable ASCII characters of code points 32..95 and 97..126, in order
ASCII_LOW == " !\"#$%&'()*+,-./0123456789:;<=>?@ABCDEFGHIJKLMNOPQRSTUVWXYZ[\\]^_"

ASCII_HIGH == "abcdefghijklmnopqrstuvwxyz{|}~"

\* ord(c)
Ord(c) == IF Find(ASCII_HIGH, c) > 0 THEN 96 + Find(ASCII_HIGH, c)
          ELSE 31 + Find(ASCII_LOW, c)

RECURSIVE StrLess(_, _)
\* a < b on str: lexicographic by code point
StrLess(a, b) ==
    IF b = "" THEN FALSE
    ELSE IF a = "" THEN TRUE
    ELSE IF Char(a, 1) = Char(b, 1) THEN StrLess(Tail(a), Tail(b))
    ELSE Ord(Char(a, 1)) < Ord(Char(b, 1))

(***************************************************************************)
(* Python values: None, int, str, list and dict.                           *)
(***************************************************************************)
None == [t |-> "none", v |-> 0]

PyInt(n) == [t |-> "int", v |-> n]

PyStr(s) == [t |-> "str", v |-> s]

PyList(l) == [t |-> "list", v |-> l]

PyDict(d) == [t |-> "dict", v |-> d]

\* DictSet that leaves a bound key alone, as headers.setdefault(key, value) does
DictSet_KeepFirst(d, k, val) ==
    IF \E i \in 1..Len(d) : d[i].k = k THEN d
    ELSE Append(d, [k |-> k, v |-> val])

\* d[k] = v on a dict: a new key goes last, a bound key keeps its position
DictSet(d, k, val) ==
    IF \E i \in 1..Len(d) : d[i].k = k
    THEN [i \in 1..Len(d) |-> IF d[i].k = k THEN [k |-> k, v |-> val] ELSE d[i]]
    ELSE Append(d, [k |-> k, v |-> val])

DictHas(d, k) == \E i \in 1..Len(d) : d[i].k = k

DictGet(d, k) == d[CHOOSE i \in 1..Len(d) : d[i].k = k].v

\* bool(value), as `not request.body` evaluates it
Truthy(x) ==
    CASE x.t = "none" -> FALSE
      [] x.t = "int" -> x.v # 0
      [] x.t = "str" -> x.v # ""
      [] x.t = "list" -> x.v # <<>>
      [] x.t = "dict" -> x.v # <<>>

(***************************************************************************)
(* json.loads and json.dumps, for the JSON texts made of null, integers,   *)
(* strings without escapes, arrays and objects.  A parse step yields       *)
(* [ok, val, pos]: whether a value was read, the value, and the index of   *)
(* the first character after it.                                           *)
(***************************************************************************)
ParseFail == [ok |-> FALSE, val |-> None, pos |-> 0]

ParseOk(val, pos) == [ok |-> TRUE, val |-> val, pos |-> pos]

IsDigit(c) == Find(Digits, c) > 0

RECURSIVE SkipWS(_, _)
\* the index of the first character at or after i that is not JSON whitespace
SkipWS(s, i) ==
    IF i <= Len(s) /\ Char(s, i) \in {" ", "\t", "\n", "\r"} THEN SkipWS(s, i + 1) ELSE i

RECURSIVE DigitsEnd(_, _)
\* the index after the run of digits that starts at i
DigitsEnd(s, i) == IF i <= Len(s) /\ IsDigit(Char(s, i)) THEN DigitsEnd(s, i + 1) ELSE i

RECURSIVE NatVal(_)
\* int(s) for a string of digits
NatVal(s) == IF s = "" THEN 0
             ELSE 10 * NatVal(SubSeq(s, 1, Len(s) - 1)) + (Find(Digits, Char(s, Len(s))) - 1)

\* the digits of s from b up to e, e being the index after them
NatUpTo(s, b, e) ==
    IF e = b THEN ParseFail
    ELSE IF Char(s, b) = "0" THEN ParseOk(PyInt(0), b + 1)
    ELSE ParseOk(PyInt(NatVal(SubSeq(s, b, e - 1))), e)

Negated(r) == IF r.ok THEN ParseOk(PyInt(0 - r.val.v), r.pos) ELSE ParseFail

\* a JSON integer at i: an optional minus, then 0 or a run of digits without leading 0
ParseInt(s, i) ==
    IF Char(s, i) = "-" THEN Negated(NatUpTo(s, i + 1, DigitsEnd(s, i + 1)))
    ELSE NatUpTo(s, i, DigitsEnd(s, i))

\* the string body read, valid when it has no escape and no control character
StringOf(body, pos) ==
    IF Find(body, "\\") > 0 \/ Find(body, "\t") > 0 THEN ParseFail
    ELSE ParseOk(PyStr(body), pos)

\* the string opened at i and closed by the quote k characters later
StringUpTo(s, i, k) ==
    IF k = 0 THEN ParseFail ELSE StringOf(SubSeq(s, i + 1, i + k - 1), i + k + 1)

\* a JSON string whose opening quote is at i
ParseString(s, i) == StringUpTo(s, i, Find(SubSeq(s, i + 1, Len(s)), "\""))

RECURSIVE ParseValue(_, _)
RECURSIVE ParseElems(_, _, _)
RECURSIVE ParseMembers(_, _, _)

\* after the elements acc of an array: "," and more elements, or "]" at j
ElemSep(s, acc, j) ==
    IF j > Len(s) THEN ParseFail
    ELSE IF Char(s, j) = "," THEN ParseElems(s, j + 1, acc)
    ELSE IF Char(s, j) = "]" THEN ParseOk(PyList(acc), j + 1)
    ELSE ParseFail

AfterElem(s, acc, e) ==
    IF ~e.ok THEN ParseFail ELSE ElemSep(s, Append(acc, e.val), SkipWS(s, e.pos))

\* the elements of an array after "[" or ",", up to and including "]"
ParseElems(s, i, acc) == AfterElem(s, acc, ParseValue(s, i))

\* after the members acc of an object: "," and more members, or "}" at n
MemberSep(s, acc, n) ==
    IF n > Len(s) THEN ParseFail
    ELSE IF Char(s, n) = "," THEN ParseMembers(s, n + 1, acc)
    ELSE IF Char(s, n) = "}" THEN ParseOk(PyDict(acc), n + 1)
    ELSE ParseFail

\* a later member of the same name replaces the earlier one
AfterMember(s, acc, k, e) ==
    IF ~e.ok THEN ParseFail ELSE MemberSep(s, DictSet(acc, k, e.val), SkipWS(s, e.pos))

MemberColon(s, acc, k, c) ==
    IF c <= Len(s) /\ Char(s, c) = ":" THEN AfterMember(s, acc, k, ParseValue(s, c + 1))
    ELSE ParseFail

AfterKey(s, acc, key) ==
    IF ~key.ok THEN ParseFail ELSE MemberColon(s, acc, key.val.v, SkipWS(s, key.pos))

MemberKey(s, acc, j) ==
    IF j <= Len(s) /\ Char(s, j) = "\"" THEN AfterKey(s, acc, ParseString(s, j))
    ELSE ParseFail

\* the members of an object after "{" or ",", up to and including "}"
ParseMembers(s, i, acc) == MemberKey(s, acc, SkipWS(s, i))

\* after "[": the empty array when "]" is at n, the elements otherwise
ListAt(s, n) ==
    IF n <= Len(s) /\ Char(s, n) = "]" THEN ParseOk(PyList(<<>>), n + 1)
    ELSE ParseElems(s, n, <<>>)

\* after "{": the empty object when "}" is at n, the members otherwise
ObjectAt(s, n) ==
    IF n <= Len(s) /\ Char(s, n) = "}" THEN ParseOk(PyDict(<<>>), n + 1)
    ELSE ParseMembers(s, n, <<>>)

\* the value that starts with the character c at j
ValueOf(s, j, c) ==
    CASE c = "[" -> ListAt(s, SkipWS(s, j + 1))
      [] c = "{" -> ObjectAt(s, SkipWS(s, j + 1))
      [] c = "\"" -> ParseString(s, j)
      [] c = "-" \/ IsDigit(c) -> ParseInt(s, j)
      [] c = "n" -> IF j + 3 <= Len(s) /\ SubSeq(s, j, j + 3) = "null"
                    THEN ParseOk(None, j + 4) ELSE ParseFail
      [] OTHER -> ParseFail

ValueAt(s, j) == IF j > Len(s) THEN ParseFail ELSE ValueOf(s, j, Char(s, j))

ParseValue(s, i) == ValueAt(s, SkipWS(s, i))

\* the value read is the whole text but for trailing whitespace
Complete(s, r) == IF r.ok /\ SkipWS(s, r.pos) = Len(s) + 1 THEN r ELSE ParseFail

\* json.loads(s): [ok |-> FALSE] stands for JSONDecodeError
JsonLoads(s) == Complete(s, ParseValue(s, 1))

RECURSIVE JsonEscape(_)
\* the escaping json.dumps applies inside a string
JsonEscape(s) ==
    IF s = "" THEN ""
    ELSE (CASE Char(s, 1) = "\"" -> "\\\""
            [] Char(s, 1) = "\\" -> "\\\\"
            [] OTHER -> Char(s, 1)) \o JsonEscape(Tail(s))

RECURSIVE JsonDumps(_)
\* json.dumps(x) with the default separators ", " and ": "
JsonDumps(x) ==
    CASE x.t = "none" -> "null"
      [] x.t = "int" -> IntStr(x.v)
      [] x.t = "str" -> "\"" \o JsonEscape(x.v) \o "\""
      [] x.t = "list" -> "[" \o Join([i \in 1..Len(x.v) |-> JsonDumps(x.v[i])], ", ") \o "]"
      [] x.t = "dict" ->
           "{" \o Join([i \in 1..Len(x.v) |->
                          "\"" \o JsonEscape(x.v[i].k) \o "\": " \o JsonDumps(x.v[i].v)], ", ")
               \o "}"

(***************************************************************************)
(* The Request and Response objects and the decode of a raw request.       *)
(***************************************************************************)
Request(method, resource, http_version, headers, body) ==
    [method |-> method, resource |-> resource, http_version |-> http_version,
     headers |-> headers, body |-> body]

\* the status message is looked up from the code, whatever message is passed
Response(http_version, status_code, status_message, headers, body) ==
    [http_version |-> http_version, status_code |-> status_code,
     status_message |-> STATUS_CODES[status_code], headers |-> headers, body |-> body]

NoRequest == Request("", "", "", <<>>, None)

NoResponse == [http_version |-> "", status_code |-> 0, status_message |-> "",
               headers |-> <<>>, body |-> ""]

RECURSIVE HeadersFrom(_, _)
\* headers[key] = value for a line split into kv; a line that does not
\* split on ": " into two parts raises ValueError
HeaderInto(kv, rest, headers) ==
    IF Len(kv) # 2 THEN [exc |-> "ValueError", headers |-> <<>>]
    ELSE HeadersFrom(rest, DictSet(headers, kv[1], kv[2]))

\* the loop of _get_headers over the lines left, from the dict built so far
HeadersFrom(raw_headers, headers) ==
    IF raw_headers = <<>> THEN [exc |-> "", headers |-> headers]
    ELSE HeaderInto(Split(raw_headers[1], ": "), Tail(raw_headers), headers)

_get_headers(raw_headers) == HeadersFrom(raw_headers, <<>>)

BodyOf(r) == IF r.ok THEN [exc |-> "", body |-> r.val]
             ELSE [exc |-> "JSONDecodeError", body |-> None]

\* _get_body with `json.loads(raw_body) if raw_body else {}`
_get_body_EmptyObject(raw_body) ==
    IF raw_body = "" THEN [exc |-> "", body |-> PyDict(<<>>)] ELSE BodyOf(JsonLoads(raw_body))

\* json.loads of a non-empty body line, None for the empty line
_get_body(raw_body) ==
    IF raw_body = "" THEN [exc |-> "", body |-> None] ELSE BodyOf(JsonLoads(raw_body))

\* request_segments[1:-1]: the lines after the first and before the last
HeaderSegments_AllButLast(request_segments) ==
    SubSeq(request_segments, 2, Len(request_segments) - 1)

\* request_segments[1:-2]: the lines after the first and before the last two
HeaderSegments(request_segments) ==
    SubSeq(request_segments, 2, Len(request_segments) - 2)

\* the Request of the split request line, the headers and the body, or the
\* first exception raised on the way: the line must unpack into three tokens
DecodeParts(line, h, b) ==
    IF Len(line) # 3 THEN [exc |-> "ValueError", request |-> NoRequest]
    ELSE IF h.exc # "" THEN [exc |-> h.exc, request |-> NoRequest]
    ELSE IF b.exc # "" THEN [exc |-> b.exc, request |-> NoRequest]
    ELSE [exc |-> "", request |-> Request(line[1], line[2], line[3], h.headers, b.body)]

DecodeSegments(request_segments) ==
    DecodeParts(Split(request_segments[1], " "),
                _get_headers(HeaderSegments(request_segments)),
                _get_body(request_segments[Len(request_segments)]))

process_request(raw) == DecodeSegments(Split(raw, CRLF))

(***************************************************************************)
(* The handlers.  A handler yields [exc, content]: the exception it        *)
(* raises, or "" and the value it returns.                                 *)
(***************************************************************************)
Returns(content) == [exc |-> "", content |-> content]

Raises(exc) == [exc |-> exc, content |-> None]

\* Less on the texts of the values, as a sort of the unparsed tokens compares
Less_Text(a, b) ==
    IF a.t = "int" THEN StrLess(IntStr(a.v), IntStr(b.v)) ELSE StrLess(a.v, b.v)

\* a < b on two values of a list being sorted
Less(a, b) == IF a.t = "int" THEN a.v < b.v ELSE StrLess(a.v, b.v)

RECURSIVE Insert(_, _)
\* x put into the sorted list l after the elements that are not greater
Insert(x, l) ==
    IF l = <<>> THEN <<x>>
    ELSE IF Less(x, l[1]) THEN <<x>> \o l
    ELSE <<l[1]>> \o Insert(x, Tail(l))

RECURSIVE SortedList(_)
\* sorted(l) on a list of mutually comparable values: ascending and stable
SortedList(l) ==
    IF l = <<>> THEN <<>>
    ELSE Insert(l[Len(l)], SortedList(SubSeq(l, 1, Len(l) - 1)))

\* whether sorted(l) compares its elements without a TypeError: a list of
\* ints, a list of strs, or a list too short to compare anything (lists of
\* lists, which Python compares too, are outside the inputs of this model)
Comparable(l) ==
    \/ Len(l) <= 1
    \/ \A i \in 1..Len(l) : l[i].t = "int"
    \/ \A i \in 1..Len(l) : l[i].t = "str"

\* sorted(x): the sorted list of the elements x iterates over
sorted(x) ==
    CASE x.t = "list" -> IF Comparable(x.v) THEN Returns(PyList(SortedList(x.v)))
                         ELSE Raises("TypeError")
      [] x.t = "str" -> Returns(PyList(SortedList([i \in 1..Len(x.v) |-> PyStr(Char(x.v, i))])))
      [] x.t = "dict" -> Returns(PyList(SortedList([i \in 1..Len(x.v) |-> PyStr(x.v[i].k)])))
      [] OTHER -> Raises("TypeError")

sort_numbers(req) ==
    IF ~Truthy(req.body) THEN Returns(PyList(<<>>))
    ELSE IF req.body.t # "dict" THEN Raises("TypeError")
    ELSE IF ~DictHas(req.body.v, "input") THEN Raises("KeyError")
    ELSE sorted(DictGet(req.body.v, "input"))

\* the headers dict of the request, as the value json.dumps receives
get_request_headers(req) ==
    Returns(PyDict([i \in 1..Len(req.headers) |->
                      [k |-> req.headers[i].k, v |-> PyStr(req.headers[i].v)]]))

\* a row of the reader: the field names bound to the cells of the line,
\* None where the line has fewer cells
RowOf(fieldnames, cells) ==
    [i \in 1..Len(fieldnames) |->
       [k |-> fieldnames[i], v |-> IF i <= Len(cells) THEN PyStr(cells[i]) ELSE None]]

RowsOf(fieldnames, lines) ==
    [n \in 1..(Len(lines) - 1) |-> RowOf(fieldnames, Split(lines[n + 1], ";"))]

\* csv.DictReader over the lines of the file with delimiter ";": the first
\* line names the fields, every other line is a row
DictReader(lines) ==
    IF lines = <<>> THEN <<>> ELSE RowsOf(Split(lines[1], ";"), lines)

\* FirstRow without the return inside the loop: the last row among hits is kept
FirstRow_Last(rows, hits) ==
    IF hits = {} THEN Returns(None)
    ELSE Returns(PyDict(rows[CHOOSE n \in hits : \A m \in hits : m <= n]))

\* the first row among hits, None when there is none
FirstRow(rows, hits) ==
    IF hits = {} THEN Returns(None) ELSE Returns(PyDict(rows[FirstOf(hits)]))

\* the loop over the rows: row["Title"] == movie_title
SearchRows(rows, movie_title) ==
    IF rows # <<>> /\ ~DictHas(rows[1], "Title") THEN Raises("KeyError")
    ELSE FirstRow(rows, {n \in 1..Len(rows) : /\ DictGet(rows[n], "Title").t = "str"
                                              /\ DictGet(rows[n], "Title").v = movie_title})

\* resource.split("/")[-1]
LastSegment(segments) == segments[Len(segments)]

search_movie_title(req, file) ==
    IF ~file.exists THEN Raises("FileNotFoundError")
    ELSE SearchRows(DictReader(file.lines), LastSegment(Split(req.resource, "/")))

\* the call of the handler bound in the route table
CallHandler(name, req, file) ==
    CASE name = "sort_numbers" -> sort_numbers(req)
      [] name = "get_request_headers" -> get_request_headers(req)
      [] name = "search_movie_title" -> search_movie_title(req, file)

\* json_content without the test for None: whatever the handler returns is dumped
json_content_NoNoneTest(r) ==
    IF r.exc # "" THEN [exc |-> r.exc, status_code |-> 0, content |-> ""]
    ELSE [exc |-> "", status_code |-> 200, content |-> JsonDumps(r.content)]

\* json_content with `if not content` in place of `if content is None`
json_content_Falsy(r) ==
    IF r.exc # "" THEN [exc |-> r.exc, status_code |-> 0, content |-> ""]
    ELSE IF ~Truthy(r.content) THEN [exc |-> "", status_code |-> 404, content |-> STATUS_CODES[404]]
    ELSE [exc |-> "", status_code |-> 200, content |-> JsonDumps(r.content)]

\* the wrapper of the decorator: None becomes 404, a value 200 and its JSON
json_content(r) ==
    IF r.exc # "" THEN [exc |-> r.exc, status_code |-> 0, content |-> ""]
    ELSE IF r.content.t = "none" THEN [exc |-> "", status_code |-> 404, content |-> STATUS_CODES[404]]
    ELSE [exc |-> "", status_code |-> 200, content |-> JsonDumps(r.content)]

(***************************************************************************)
(* Routing and the encoding of the response.                               *)
(***************************************************************************)
\* self.collections as __init__ builds it: collection -> method -> handler
RouteTable ==
    [headers |-> [GET |-> "get_request_headers"],
     movies |-> [GET |-> "search_movie_title"],
     sort |-> [POST |-> "sort_numbers"]]

\* _generate_response_headers counting the line the body is sent as, the
\* CRLF that ends it included
_generate_response_headers_Line(content, now) ==
    <<[k |-> "Content-Type", v |-> PyStr("application/json")],
      [k |-> "Host", v |-> PyStr(HOST \o ":" \o IntStr(PORT))],
      [k |-> "Date", v |-> PyStr(now)],
      [k |-> "Content-Length", v |-> PyInt(Len(content \o CRLF))]>>

\* the four headers of a response: Content-Length is len(content), in characters
_generate_response_headers(content, now) ==
    <<[k |-> "Content-Type", v |-> PyStr("application/json")],
      [k |-> "Host", v |-> PyStr(HOST \o ":" \o IntStr(PORT))],
      [k |-> "Date", v |-> PyStr(now)],
      [k |-> "Content-Length", v |-> PyInt(Len(content))]>>

\* Lookup with the method looked up in every collection's bindings at once:
\* a method bound nowhere for the requested collection is reported first
Lookup_MethodFirst(routes, requested_collection, http_method) ==
    IF \/ requested_collection \notin DOMAIN routes
       \/ http_method \notin DOMAIN routes[requested_collection]
    THEN [status_code |-> 405, name |-> ""]
    ELSE [status_code |-> 200, name |-> routes[requested_collection][http_method]]

\* Lookup with both KeyErrors handled by one except clause
Lookup_OneExcept(routes, requested_collection, http_method) ==
    IF \/ requested_collection \notin DOMAIN routes
       \/ http_method \notin DOMAIN routes[requested_collection]
    THEN [status_code |-> 404, name |-> ""]
    ELSE [status_code |-> 200, name |-> routes[requested_collection][http_method]]

\* the two lookups of handle_request: the status code they leave and the
\* name of the handler bound to (collection, method), "" when there is none
Lookup(routes, requested_collection, http_method) ==
    IF requested_collection \notin DOMAIN routes THEN [status_code |-> 404, name |-> ""]
    ELSE IF http_method \notin DOMAIN routes[requested_collection]
    THEN [status_code |-> 405, name |-> ""]
    ELSE [status_code |-> 200, name |-> routes[requested_collection][http_method]]

\* the Response of lines 132-137: a status other than 200 has its message as content
Respond(req, now, status_code, content) ==
    Response(req.http_version, status_code, STATUS_CODES[status_code],
             _generate_response_headers(content, now), content)

\* the outcome of the handler called: its exception, or the response
Outcome(req, now, name, r) ==
    IF r.exc # "" THEN [exc |-> r.exc, invoked |-> name, response |-> NoResponse]
    ELSE [exc |-> "", invoked |-> name,
          response |-> Respond(req, now, r.status_code,
                               IF r.status_code # 200 THEN STATUS_CODES[r.status_code]
                               ELSE r.content)]

\* Dispatch without the except clauses: the KeyError of a failed lookup
\* leaves handle_request
Dispatch_Uncaught(req, file, now, found) ==
    IF found.name = ""
    THEN [exc |-> "KeyError", invoked |-> "", response |-> NoResponse]
    ELSE Outcome(req, now, found.name, json_content(CallHandler(found.name, req, file)))

\* the handler found is called, or the status of the failed lookup answered
Dispatch(req, file, now, found) ==
    IF found.name = ""
    THEN [exc |-> "", invoked |-> "",
          response |-> Respond(req, now, found.status_code, STATUS_CODES[found.status_code])]
    ELSE Outcome(req, now, found.name, json_content(CallHandler(found.name, req, file)))

\* handle_request that takes the collection from the last path segment,
\* request.resource.split("/")[-1]
handle_request_LastSegment(req, routes, file, now) ==
    IF Len(Split(req.resource, "/")) < 2
    THEN [exc |-> "IndexError", invoked |-> "", response |-> NoResponse]
    ELSE Dispatch(req, file, now,
                  Lookup(routes, LastSegment(Split(req.resource, "/")), req.method))

\* handle_request: [exc, invoked, response], invoked naming the handler called;
\* request.resource.split("/")[1] raises IndexError on a single segment
handle_request(req, routes, file, now) ==
    IF Len(Split(req.resource, "/")) < 2
    THEN [exc |-> "IndexError", invoked |-> "", response |-> NoResponse]
    ELSE Dispatch(req, file, now, Lookup(routes, Split(req.resource, "/")[2], req.method))

\* str(value) of a header value
Str(x) == IF x.t = "int" THEN IntStr(x.v) ELSE x.v

\* the template "{} {} {}\r\n{}\r\n\r\n{}": the body ends the data
HTTP_RESPONSE_TPL_NoTrailer(version, code, message, headers, body) ==
    version \o " " \o code \o " " \o message \o CRLF \o headers \o CRLF \o CRLF \o body

\* HTTP_RESPONSE_TPL.format(version, code, message, headers, body)
HTTP_RESPONSE_TPL(version, code, message, headers, body) ==
    version \o " " \o code \o " " \o message \o CRLF \o headers \o CRLF \o CRLF \o body \o CRLF

send_response(resp) ==
    LET headers == Join([i \in 1..Len(resp.headers) |->
                           resp.headers[i].k \o ": " \o Str(resp.headers[i].v)], CRLF)
    IN  HTTP_RESPONSE_TPL(resp.http_version, IntStr(resp.status_code), resp.status_message,
                          headers, resp.body)

(***************************************************************************)
(* The requests a client puts on the wire: a request line, header lines,   *)
(* the blank line (unless the client leaves it out) and the body line.     *)
(***************************************************************************)
Methods == {"GET", "POST", "DELETE"}

Resources == {"/headers", "/headers/sort", "/movies/Alien", "/movies/Nope", "/movies",
              "/movies/alien", "/movies/1979/Heat",
              "/sort", "/sort/extra", "/unknown", "/", "sort", ""}

RequestLines(version) == {m \o " " \o r \o " " \o version : m \in Methods, r \in Resources}

\* request lines that do not split on " " into three tokens
BadRequestLines == {"GET /sort", "GET /sort HTTP/1.1 x", "GET  /sort HTTP/1.1", ""}

\* header lines: two names, one of them with two values, and two lines that
\* do not split on ": " into a name and a value
HeaderLines == {"A: 1", "A: 2", "B: 1", "bad", "A: 1: 2"}

SeqsUpTo(S, n) == UNION {[1..k -> S] : k \in 0..n}

Nums == {-1, 2, 10}

NumLists == SeqsUpTo(Nums, MaxLen)

\* the body {"input": L} of a sort request
SortBody(L) == JsonDumps(PyDict(<<[k |-> "input", v |-> PyList([i \in 1..Len(L) |-> PyInt(L[i])])]>>))

\* body lines that are not JSON texts
NotJson == {"{bad", "[1,]", "{\"input\": [3, 1, 2]"}

OtherBodies == NotJson \cup
               {"[]", "{}", "0", "null", "\"\"", "[1, 2]", "5", "{\"x\": [1]}",
                "{\"input\": 5}", "{\"input\": null}", "{\"input\": [1, \"a\"]}",
                "{\"input\": \"ba\"}", "{\"input\": [\"b\", \"B\", \"ab\"]}",
                "{\"input\": {\"b\": 1, \"a\": 2}}", "{\"input\":[10,2]}"}

Client(line, headers, blank, body) ==
    [line |-> line, headers |-> headers, blank |-> blank, body |-> body]

\* every request line with no header and no body; the header lines on the
\* requests whose answer depends on them; the bodies likewise; requests of
\* another version, some of them without the blank line
ClientRequests ==
    {Client(l, <<>>, TRUE, "") : l \in RequestLines("HTTP/1.1") \cup BadRequestLines}
    \cup {Client(l, h, TRUE, "") :
        l \in {"GET /headers HTTP/1.1", "POST /headers HTTP/1.1", "GET /unknown HTTP/1.1"}
              \cup BadRequestLines,
        h \in SeqsUpTo(HeaderLines, MaxHeaders)}
    \cup {Client(l, <<>>, TRUE, b) :
        l \in {"POST /sort HTTP/1.1", "POST /sort/extra HTTP/1.1", "GET /sort HTTP/1.1",
               "GET /headers HTTP/1.1", "DELETE /unknown HTTP/1.1"},
        b \in {SortBody(L) : L \in NumLists} \cup OtherBodies}
    \cup {Client(l, <<>>, TRUE, "") : l \in RequestLines("HTTP/1.0")}
    \cup {Client(l, h, FALSE, b) :
        l \in {"GET /headers HTTP/1.0", "POST /sort HTTP/1.0"},
        h \in SeqsUpTo({"A: 1", "bad"}, MaxHeaders), b \in {"", "{\"input\": [2, -1]}"}}

\* the text of the request on the wire
Wire(c) ==
    Join(<<c.line>> \o c.headers \o (IF c.blank THEN <<"">> ELSE <<>>) \o <<c.body>>, CRLF)

NoClient == Client("", <<>>, FALSE, "")

\* film.csv: absent, or its lines
FilmFiles ==
    {[exists |-> FALSE, lines |-> <<>>],
     [exists |-> TRUE, lines |-> <<"Year;Title;Subject", "1979;Alien;Horror",
                                   "1986;Alien;Action", "1995;Heat;Crime">>],
     [exists |-> TRUE, lines |-> <<"Title;Year", "Heat;1995">>]}

\* what datetime.now().ctime() may yield
Dates == {"Fri Nov  6 06:00:00 2026", "Fri Nov  6 06:00:01 2026"}

(***************************************************************************)
(* The connection loop of __call__: pc is the call the loop is about to    *)
(* make, "crashed" once an exception has left the loop.  The values of a   *)
(* cycle are dropped once nothing reads them any more: the request when    *)
(* its response has been sent, the response when the next request arrives. *)
(***************************************************************************)
Init ==
    /\ pc = "recieve"
    /\ client = NoClient
    /\ raw_request = ""
    /\ request = NoRequest
    /\ response = NoResponse
    /\ data = ""
    /\ failure = ""
    /\ invoked = ""
    /\ collections = RouteTable
    /\ film \in FilmFiles
    /\ nreceived = 0
    /\ nsent = 0

\* RecieveRequest of a loop that reads the next request while the response
\* of the previous one is still to be sent
RecieveRequest_Pipelined ==
    /\ pc \in {"recieve", "send"}
    /\ nreceived < MaxRequests
    /\ \E c \in ClientRequests :
         /\ client' = c
         /\ raw_request' = Wire(c)
    /\ request' = NoRequest
    /\ response' = NoResponse
    /\ data' = ""
    /\ invoked' = ""
    /\ nreceived' = nreceived + 1
    /\ pc' = "process"
    /\ UNCHANGED <<failure, collections, film, nsent>>

\* raw_request = self.recieve_request()
RecieveRequest ==
    /\ pc = "recieve"
    /\ nreceived < MaxRequests
    /\ \E c \in ClientRequests :
         /\ client' = c
         /\ raw_request' = Wire(c)
    /\ request' = NoRequest
    /\ response' = NoResponse
    /\ data' = ""
    /\ invoked' = ""
    /\ nreceived' = nreceived + 1
    /\ pc' = "process"
    /\ UNCHANGED <<failure, collections, film, nsent>>

\* Processed with the call wrapped in try/except: after an exception the
\* loop goes on to the next request
Processed_Caught(r) ==
    /\ request' = r.request
    /\ failure' = r.exc
    /\ pc' = IF r.exc = "" THEN "handle" ELSE "recieve"

\* the request decoded, or the exception that leaves the loop
Processed(r) ==
    /\ request' = r.request
    /\ failure' = r.exc
    /\ pc' = IF r.exc = "" THEN "handle" ELSE "crashed"

\* request = self.process_request(raw_request)
ProcessRequest ==
    /\ pc = "process"
    /\ Processed(process_request(raw_request))
    /\ UNCHANGED <<client, raw_request, response, data, invoked, collections, film,
                   nreceived, nsent>>

\* Answered by a loop that remembers it has answered before: from the second
\* response on the protocol version is HTTP/1.1, whatever the request says
Answered_Upgraded(r) ==
    /\ response' = IF r.exc = "" /\ nsent > 0
                   THEN [r.response EXCEPT !.http_version = "HTTP/1.1"]
                   ELSE r.response
    /\ invoked' = r.invoked
    /\ failure' = r.exc
    /\ pc' = IF r.exc = "" THEN "send" ELSE "crashed"

\* the response built, or the exception that leaves the loop
Answered(r) ==
    /\ response' = r.response
    /\ invoked' = r.invoked
    /\ failure' = r.exc
    /\ pc' = IF r.exc = "" THEN "send" ELSE "crashed"

\* HandleRequest with the collection looked up by
\* self.collections.setdefault(requested_collection, {}): a collection that
\* is not in the table is entered into it with no method bound
HandleRequest_SetDefault ==
    /\ pc = "handle"
    /\ \E now \in Dates : Answered(handle_request(request, collections, film, now))
    /\ collections' =
         IF /\ Len(Split(request.resource, "/")) >= 2
            /\ Split(request.resource, "/")[2] \notin DOMAIN collections
         THEN [c \in DOMAIN collections \cup {Split(request.resource, "/")[2]} |->
                 IF c \in DOMAIN collections THEN collections[c] ELSE <<>>]
         ELSE collections
    /\ UNCHANGED <<client, raw_request, request, data, film, nreceived, nsent>>

\* response = self.handle_request(request)
HandleRequest ==
    /\ pc = "handle"
    /\ \E now \in Dates : Answered(handle_request(request, collections, film, now))
    /\ UNCHANGED <<client, raw_request, request, data, collections, film, nreceived, nsent>>

\* data = self.send_response(response)
SendResponse ==
    /\ pc = "send"
    /\ data' = send_response(response)
    /\ nsent' = nsent + 1
    /\ pc' = "recieve"
    /\ client' = NoClient
    /\ raw_request' = ""
    /\ request' = NoRequest
    /\ invoked' = ""
    /\ UNCHANGED <<response, failure, collections, film, nreceived>>

Next == RecieveRequest \/ ProcessRequest \/ HandleRequest \/ SendResponse

Spec == Init /\ [][Next]_vars

(***************************************************************************)
(* The decoder alone, on the wire text of well-formed requests: the       *)
(* request a client means is kept in client, and process_request is       *)
(* applied to the text that encodes it.                                    *)
(***************************************************************************)
\* header names and values without ": " and without CRLF
HeaderNames == {"A", "B:", ""}

HeaderValues == {"1", "", " b"}

\* header mappings of up to MaxHeaders names, in the order they are sent
HeaderMaps ==
    {h \in SeqsUpTo([k : HeaderNames, v : HeaderValues], MaxHeaders) :
        \A i, j \in 1..Len(h) : h[i].k = h[j].k => i = j}

\* bodies: absent, or a JSON value
WellFormedBodies ==
    <<None, PyInt(-1), PyStr(""), PyStr("a b"), PyList(<<>>), PyList(<<PyInt(10), PyInt(2)>>),
      PyDict(<<>>), PyDict(<<[k |-> "input", v |-> PyList(<<PyInt(2), PyInt(-1)>>)]>>)>>

\* the line a client sends for the body: empty for an absent body
BodyLine(body) == IF body.t = "none" THEN "" ELSE JsonDumps(body)

\* the wire text of a request: the request line, the header lines, the
\* blank line and the body line
Encode(req) ==
    Join(<<req.method \o " " \o req.resource \o " " \o req.http_version>>
           \o [i \in 1..Len(req.headers) |-> req.headers[i].k \o ": " \o req.headers[i].v]
           \o <<"", BodyLine(req.body)>>,
         CRLF)

InitCodec ==
    /\ pc = "process"
    /\ \E m \in {"GET", "POST", ""}, r \in {"/headers", "/sort/a:b", ""},
          v \in {"HTTP/1.1", "HTTP/1.0"}, h \in HeaderMaps, b \in 1..Len(WellFormedBodies) :
         /\ client = Request(m, r, v, h, WellFormedBodies[b])
         /\ raw_request = Encode(Request(m, r, v, h, WellFormedBodies[b]))
    /\ request = NoRequest
    /\ response = NoResponse
    /\ data = ""
    /\ failure = ""
    /\ invoked = ""
    /\ collections = RouteTable
    /\ film = [exists |-> FALSE, lines |-> <<>>]
    /\ nreceived = 1
    /\ nsent = 0

SpecCodec == InitCodec /\ [][ProcessRequest]_vars

(***************************************************************************)
(* Properties.                                                             *)
(***************************************************************************)
\* the exceptions handle_request lets through; process_request raises others
HandleFailures == {"IndexError", "KeyError", "TypeError", "FileNotFoundError"}

\* handle_request has been called on the request and has returned or raised
Handled == pc = "send" \/ (pc = "crashed" /\ failure \in HandleFailures)

Segments == Split(request.resource, "/")

HasCollection == Len(Segments) >= 2

Collection == Segments[2]

KnownCollections == {"headers", "movies", "sort"}

BoundPairs == {<<"headers", "GET">>, <<"movies", "GET">>, <<"sort", "POST">>}

\* C1: a request whose first path segment is not headers, movies or sort is
\* answered 404 "Not Found" whatever its method, and no handler is invoked.
C1_UnknownCollectionIs404 ==
    (Handled /\ HasCollection /\ Collection \notin KnownCollections)
        => /\ pc = "send"
           /\ response.status_code = 404
           /\ response.body = "Not Found"
           /\ invoked = ""

C1_Witness ==
    /\ pc = "send"
    /\ request.resource = "/unknown"
    /\ request.method = "DELETE"
    /\ response.status_code = 404
    /\ response.body = "Not Found"

\* C2: a request for a collection of the route table with a method that is
\* not bound for it is answered 405 "Not Allowed", and no handler is invoked.
C2_UnboundMethodIs405 ==
    (Handled /\ HasCollection /\ Collection \in KnownCollections
             /\ <<Collection, request.method>> \notin BoundPairs)
        => /\ pc = "send"
           /\ response.status_code = 405
           /\ response.body = "Not Allowed"
           /\ invoked = ""

C2_Witness ==
    /\ pc = "send"
    /\ request.resource = "/sort"
    /\ request.method = "DELETE"
    /\ response.status_code = 405
    /\ response.body = "Not Allowed"

\* C3: a request whose resource has no collection segment (fewer than two
\* segments when split on "/") is answered 404 "Not Found" like an unknown
\* collection, handle_request does not fail on it.
C3_NoCollectionIs404 ==
    (pc \in {"send", "crashed"} /\ process_request(raw_request).exc = ""
       /\ Len(Split(process_request(raw_request).request.resource, "/")) < 2)
        => /\ pc = "send"
           /\ response.status_code = 404
           /\ response.body = "Not Found"

\* what the handler invoked returned for the request
Payload == CallHandler(invoked, request, film).content

IsEmptyPayload(x) == x.t \in {"list", "dict"} /\ x.v = <<>>

\* C4: for a request routed to a bound handler, a handler result of None is
\* answered 404 "Not Found", and any value is answered 200 with a body that
\* is the JSON text of that value.
C4_HandlerResultToResponse ==
    (pc = "send" /\ invoked # "")
        => /\ Payload.t = "none"
                => response.status_code = 404 /\ response.body = "Not Found"
           /\ Payload.t # "none"
                => /\ response.status_code = 200
                   /\ JsonLoads(response.body).ok
                   /\ JsonLoads(response.body).val = Payload

C4_Witness ==
    /\ pc = "send"
    /\ invoked = "search_movie_title"
    /\ Payload.t = "none"
    /\ response.status_code = 404

\* C5 as stated: for a request routed to a bound handler whose payload is
\* empty (an empty list or mapping) or absent, the response is 404 "Not Found".
C5_EmptyOrAbsentPayloadIs404 ==
    (pc = "send" /\ invoked # "" /\ (Payload.t = "none" \/ IsEmptyPayload(Payload)))
        => response.status_code = 404 /\ response.body = "Not Found"

\* C5 amended: a handler signals "not found" by an absent payload only: the
\* response to a routed request is 404 "Not Found" exactly when the payload
\* is None, and an empty list or mapping is answered 200 with "[]" or "{}".
C5_OnlyAbsentPayloadIs404 ==
    (pc = "send" /\ invoked # "")
        => /\ response.status_code = 404 <=> Payload.t = "none"
           /\ response.status_code = 404 => response.body = "Not Found"
           /\ (Payload.t = "list" /\ Payload.v = <<>>)
                => response.status_code = 200 /\ response.body = "[]"
           /\ (Payload.t = "dict" /\ Payload.v = <<>>)
                => response.status_code = 200 /\ response.body = "{}"

C5_Witness ==
    /\ pc = "send"
    /\ invoked = "get_request_headers"
    /\ request.headers = <<>>
    /\ response.status_code = 200
    /\ response.body = "{}"

\* the status line at the head of the data sent
StatusLine(d) == Split(d, CRLF)[1]

\* C6: every Response constructed has status code 200, 404 or 405 with the
\* message OK, Not Found or Not Allowed of that code, on the object and on
\* the wire, and a response that is not 200 has its message as body.
C6_FixedStatusCodes ==
    /\ response.status_code # 0
         => /\ <<response.status_code, response.status_message>>
                  \in {<<200, "OK">>, <<404, "Not Found">>, <<405, "Not Allowed">>}
            /\ response.status_code # 200 => response.body = response.status_message
    /\ data # ""
         => StatusLine(data) \in
               {response.http_version \o m :
                  m \in {" 200 OK", " 404 Not Found", " 405 Not Allowed"}}

C6_Witness ==
    /\ pc = "recieve"
    /\ nsent = 2
    /\ response.status_code = 405
    /\ StatusLine(data) = "HTTP/1.1 405 Not Allowed"

\* the number of places of s at which sep occurs
Occurrences(s, sep) ==
    Cardinality({i \in 1..(Len(s) - Len(sep) + 1) : SubSeq(s, i, i + Len(sep) - 1) = sep})

\* the lines of the request of client c that stand before its last two lines
InspectedLines(c) ==
    IF c.blank THEN c.headers ELSE SubSeq(c.headers, 1, Len(c.headers) - 1)

\* the request of client c is malformed on the wire: its request line is not
\* three tokens split by single spaces, a header line before the blank line
\* has not exactly one ": ", or its last line is neither empty nor JSON
Malformed(c) ==
    \/ Occurrences(c.line, " ") # 2
    \/ \E i \in 1..Len(InspectedLines(c)) : Occurrences(InspectedLines(c)[i], ": ") # 1
    \/ c.body \in NotJson

\* the request of the client has been through process_request
Decoding == client # NoClient /\ pc # "process"

FailingSortBodies == {"[1, 2]", "5", "{\"x\": [1]}", "{\"input\": 5}", "{\"input\": null}",
                      "{\"input\": [1, \"a\"]}"}

\* handle_request raises on the request decoded: the resource has no
\* collection segment, or the bound handler raises
HandlingFails ==
    \/ ~HasCollection
    \/ /\ HasCollection
       /\ \/ /\ <<Collection, request.method>> = <<"sort", "POST">>
             /\ client.body \in FailingSortBodies
          \/ /\ <<Collection, request.method>> = <<"movies", "GET">>
             /\ ~film.exists

\* the request of the client has been processed to the end of its cycle
Finished == client # NoClient /\ pc \in {"send", "crashed"}

IsNumList(x) == x.t = "list" /\ \A i \in 1..Len(x.v) : x.v[i].t = "int"

\* the request is a POST to the sort collection with body {"input": L}
IsSortOfNumbers ==
    /\ request.method = "POST"
    /\ HasCollection
    /\ Collection = "sort"
    /\ request.body.t = "dict"
    /\ Len(request.body.v) = 1
    /\ DictHas(request.body.v, "input")
    /\ IsNumList(DictGet(request.body.v, "input"))

CountOf(l, x) == Cardinality({i \in 1..Len(l) : l[i] = x})

\* m holds the elements of l, each as often as l does, in non-descending order
IsSortingOf(m, l) ==
    /\ IsNumList(m)
    /\ Len(m.v) = Len(l.v)
    /\ \A i \in 1..(Len(m.v) - 1) : m.v[i].v <= m.v[i + 1].v
    /\ \A i \in 1..Len(l.v) : CountOf(m.v, l.v[i]) = CountOf(l.v, l.v[i])

\* C9: POST /sort with body {"input": L}, L a list of numbers, is answered
\* 200 with a body that is L rearranged in non-descending order; POST /sort
\* with an empty body line is answered 200 with the empty list.
C9_SortAscending ==
    /\ (Handled /\ IsSortOfNumbers)
         => /\ pc = "send"
            /\ response.status_code = 200
            /\ JsonLoads(response.body).ok
            /\ IsSortingOf(JsonLoads(response.body).val, DictGet(request.body.v, "input"))
    /\ (Handled /\ request.method = "POST" /\ HasCollection /\ Collection = "sort"
          /\ client.body = "")
         => /\ pc = "send"
            /\ response.status_code = 200
            /\ response.body = "[]"

C9_Witness ==
    /\ pc = "send"
    /\ client.line = "POST /sort HTTP/1.1"
    /\ client.body = SortBody(<<10, 2, -1>>)
    /\ response.status_code = 200
    /\ response.body = "[-1, 2, 10]"

\* the name of a header line sent
NameOf(line) == Split(line, ": ")[1]

\* the header line an entry of the JSON object echoed stands for
EntryLine(e) == e.k \o ": " \o e.v.v

\* the JSON object in the body of the response
Echoed == JsonLoads(response.body).val

\* a GET to /headers whose header lines end with the blank line is answered
GetHeadersAnswered == pc = "send" /\ invoked = "get_request_headers" /\ client.blank

\* C10 as stated: a GET to /headers is answered 200 with a JSON object in
\* which every header line sent appears as an entry, and no other entry.
C10_EveryHeaderEchoed ==
    GetHeadersAnswered
        => /\ response.status_code = 200
           /\ JsonLoads(response.body).ok /\ Echoed.t = "dict"
           /\ \A i \in 1..Len(client.headers) :
                 \E j \in 1..Len(Echoed.v) : EntryLine(Echoed.v[j]) = client.headers[i]
           /\ \A j \in 1..Len(Echoed.v) :
                 \E i \in 1..Len(client.headers) : EntryLine(Echoed.v[j]) = client.headers[i]

\* C10 amended: a GET to /headers is answered 200 with a JSON object that
\* has one entry per header name sent, with the value of the last header
\* line of that name: every header line appears as an entry unless a later
\* line has the same name, and there is no other entry.
C10_LastHeaderOfEachNameEchoed ==
    GetHeadersAnswered
        => /\ response.status_code = 200
           /\ JsonLoads(response.body).ok /\ Echoed.t = "dict"
           /\ \A i \in 1..Len(client.headers) :
                 (\A n \in (i + 1)..Len(client.headers) :
                     NameOf(client.headers[n]) # NameOf(client.headers[i]))
                 => \E j \in 1..Len(Echoed.v) : EntryLine(Echoed.v[j]) = client.headers[i]
           /\ \A j \in 1..Len(Echoed.v) :
                 \E i \in 1..Len(client.headers) : EntryLine(Echoed.v[j]) = client.headers[i]
           /\ \A j, n \in 1..Len(Echoed.v) : Echoed.v[j].k = Echoed.v[n].k => j = n

C10_Witness ==
    /\ pc = "send"
    /\ invoked = "get_request_headers"
    /\ client.headers = <<"A: 1", "A: 2">>
    /\ response.status_code = 200
    /\ response.body = "{\"A\": \"2\"}"

\* the request is a GET on the movies collection
IsMovieLookup == request.method = "GET" /\ HasCollection /\ Collection = "movies"

\* the last path segment of the resource
TitleAsked == Segments[Len(Segments)]

\* the column of the record source that holds the Title field
TitleColumn == FirstOf({i \in 1..Len(Split(film.lines[1], ";")) :
                          Split(film.lines[1], ";")[i] = "Title"})

\* the lines of the record source whose Title field is the title asked
TitleLines == {n \in 2..Len(film.lines) : Split(film.lines[n], ";")[TitleColumn] = TitleAsked}

\* C11: GET on the movies collection looks up the last path segment as the
\* title: with no record whose Title equals it the answer is 404 "Not
\* Found", otherwise 200 with a JSON object holding all fields, in source
\* order, of the first record whose Title equals it.
C11_MovieLookup ==
    (Handled /\ IsMovieLookup /\ film.exists)
        => /\ pc = "send"
           /\ TitleLines = {}
                => response.status_code = 404 /\ response.body = "Not Found"
           /\ TitleLines # {}
                => /\ response.status_code = 200
                   /\ JsonLoads(response.body).ok /\ Echoed.t = "dict"
                   /\ Join([i \in 1..Len(Echoed.v) |-> Echoed.v[i].k], ";") = film.lines[1]
                   /\ Join([i \in 1..Len(Echoed.v) |-> Echoed.v[i].v.v], ";")
                        = film.lines[FirstOf(TitleLines)]

C11_Witness ==
    /\ pc = "send"
    /\ request.resource = "/movies/Alien"
    /\ request.method = "GET"
    /\ response.status_code = 200
    /\ response.body = "{\"Year\": \"1979\", \"Title\": \"Alien\", \"Subject\": \"Horror\"}"

\* the header lines of the data sent: the lines after the status line up to
\* the blank line
SentHeaderLines(d) == Tail(Split(SubSeq(d, 1, Find(d, CRLF \o CRLF) - 1), CRLF))

\* the characters of the data sent after the blank line that ends the headers
SentAfterHeaders(d) == SubSeq(d, Find(d, CRLF \o CRLF) + Len(CRLF \o CRLF), Len(d))

\* the Content-Length header of the response
ContentLength == DictGet(response.headers, "Content-Length")

\* C12: for every response, of any of the three status codes, Content-Length
\* is the number of characters of the content placed in the body, on the
\* Response and on the wire.
C12_ContentLengthIsLength ==
    /\ response.status_code # 0
         => /\ DictHas(response.headers, "Content-Length")
            /\ ContentLength = PyInt(Len(response.body))
    /\ data # ""
         => \E i \in 1..Len(SentHeaderLines(data)) :
               SentHeaderLines(data)[i] = "Content-Length: " \o NatStr(Len(response.body))

C12_Witness ==
    /\ data # ""
    /\ response.status_code = 200
    /\ response.body = "[-1, 2, 10]"
    /\ ContentLength = PyInt(11)
    /\ SentHeaderLines(data)[4] = "Content-Length: 11"

\* C13: decoding the wire text that encodes a well-formed request yields a
\* Request with the same method, resource, version, header mapping and
\* body, and the absent body decodes to None, not to an empty object.
C13_DecodeRoundTrip ==
    pc # "process"
        => /\ pc = "handle"
           /\ failure = ""
           /\ request.method = client.method
           /\ request.resource = client.resource
           /\ request.http_version = client.http_version
           /\ request.headers = client.headers
           /\ request.body.t = client.body.t
           /\ request.body = client.body

C13_Witness ==
    /\ pc = "handle"
    /\ request.method = "POST"
    /\ request.resource = "/sort/a:b"
    /\ request.headers = <<[k |-> "B:", v |-> " b"], [k |-> "A", v |-> ""]>>
    /\ request.body.t = "none"
    /\ raw_request = "POST /sort/a:b HTTP/1.0\r\nB::  b\r\nA: \r\n\r\n"

\* the response about to be sent is the one built for the request received
\* last, decoded from the text the client sent
ResponseOfRequest ==
    /\ raw_request = Wire(client)
    /\ process_request(raw_request) = [exc |-> "", request |-> request]
    /\ \E now \in Dates :
         handle_request(request, collections, film, now)
            = [exc |-> "", invoked |-> invoked, response |-> response]

\* C14: the loop goes receive, process, handle, send and back to receive: a
\* response is sent only for the request received, decoded and handled just
\* before it, every request but the one in flight or the one that ended the
\* loop has had its one response, a request is received only when every
\* earlier one has been answered, and a send is always followed by receive.
C14_LoopOrder ==
    /\ [](/\ pc \in {"recieve", "process", "handle", "send", "crashed"}
          /\ nsent = IF pc = "recieve" THEN nreceived ELSE nreceived - 1
          /\ pc = "send" => ResponseOfRequest)
    /\ [][/\ pc = "recieve" => pc' = "process" /\ nreceived' = nreceived + 1 /\ nsent' = nsent
          /\ pc = "process" => pc' \in {"handle", "crashed"}
          /\ pc = "handle" => pc' \in {"send", "crashed"}
          /\ pc = "send" => /\ pc' = "recieve"
                            /\ nsent' = nsent + 1
                            /\ data' = send_response(response)
          /\ nreceived' # nreceived => pc = "recieve" /\ nsent = nreceived
          /\ nsent' # nsent => pc = "send"
          /\ pc # "crashed"]_vars

C14_Witness ==
    /\ pc = "recieve"
    /\ nreceived = 2
    /\ nsent = 2
    /\ StatusLine(data) = "HTTP/1.0 404 Not Found"

\* the lines of the request received, split on CRLF
LinesReceived == Split(raw_request, CRLF)

\* the decode of the request received has failed on its header lines
HeaderDecodeFailed == pc = "crashed" /\ failure = "ValueError"

\* the decode of the request received has returned a Request
Decoded == pc \in {"handle", "send"} \/ (pc = "crashed" /\ failure \in HandleFailures)

\* the lines hs are decoded as the header lines: the decode fails when one of
\* them has not exactly one ": ", and otherwise the headers of the Request
\* are the names of hs, each with the value of the last line of that name
DecodedAsHeaders(hs) ==
    IF \E i \in 1..Len(hs) : Occurrences(hs[i], ": ") # 1
    THEN HeaderDecodeFailed
    ELSE /\ ~HeaderDecodeFailed
         /\ Decoded
              => /\ \A i \in 1..Len(hs) :
                       (\A n \in (i + 1)..Len(hs) : NameOf(hs[n]) # NameOf(hs[i]))
                       => \E j \in 1..Len(request.headers) :
                             /\ request.headers[j].k = Split(hs[i], ": ")[1]
                             /\ request.headers[j].v = Split(hs[i], ": ")[2]
                 /\ \A j \in 1..Len(request.headers) :
                       \E i \in 1..Len(hs) :
                          hs[i] = request.headers[j].k \o ": " \o request.headers[j].v

\* C15 as stated: every line of the request except the first and the last
\* is decoded as a header line; none of them is skipped.
C15_AllLinesBetweenAreHeaders ==
    (Decoding /\ Occurrences(client.line, " ") = 2)
        => DecodedAsHeaders(SubSeq(LinesReceived, 2, Len(LinesReceived) - 1))

\* C15 amended: every line of the request except the first and the last two
\* is decoded as a header line; the line before the last, the blank line of
\* a well-formed request, is skipped whatever it holds.
C15_LinesBeforeLastTwoAreHeaders ==
    (Decoding /\ Occurrences(client.line, " ") = 2)
        => DecodedAsHeaders(SubSeq(LinesReceived, 2, Len(LinesReceived) - 2))

C15_Witness ==
    /\ pc = "send"
    /\ LinesReceived = <<"GET /headers HTTP/1.0", "A: 1", "bad", "">>
    /\ request.headers = <<[k |-> "A", v |-> "1"]>>
    /\ response.body = "{\"A\": \"1\"}"

\* the request handled has segments after its collection
HasExtraSegments == HasCollection /\ Len(Segments) > 2

\* what handle_request does with the request handled cut down to its
\* collection, "/<collection>", at some time of day
CollectionOnly ==
    handle_request(Request(request.method, "/" \o Collection, request.http_version,
                           request.headers, request.body),
                   collections, film, CHOOSE now \in Dates : TRUE)

\* C16 as stated: a request for "/<collection>/<extra segments>" has the
\* status code and the handler of the request for "/<collection>" with the
\* same method.
C16_SameStatusAsCollection ==
    (pc = "send" /\ HasExtraSegments)
        => /\ invoked = CollectionOnly.invoked
           /\ CollectionOnly.exc = ""
           /\ response.status_code = CollectionOnly.response.status_code

\* C16 amended: a request for "/<collection>/<extra segments>" selects the
\* handler of the request for "/<collection>" with the same method, and
\* when none is selected it is answered with the same status code, 404 or
\* 405; the status code of a request that has a handler is the handler's,
\* 200 or 404, never 405.
C16_RoutingByFirstSegment ==
    (Handled /\ HasExtraSegments)
        => /\ invoked = CollectionOnly.invoked
           /\ invoked = ""
                => /\ pc = "send"
                   /\ CollectionOnly.exc = ""
                   /\ response.status_code = CollectionOnly.response.status_code
                   /\ response.status_code \in {404, 405}
           /\ (invoked # "" /\ pc = "send") => response.status_code \in {200, 404}

C16_Witness ==
    /\ pc = "send"
    /\ request.resource = "/headers/sort"
    /\ request.method = "POST"
    /\ invoked = ""
    /\ response.status_code = 405

\* what a server that has processed no request makes of the request handled,
\* against the same record source: a function of request and film alone
FirstAnswer ==
    handle_request(request, RouteTable, film, CHOOSE now \in Dates : TRUE)

\* the parts of a response that do not depend on the time of day
Core(resp) ==
    [http_version |-> resp.http_version, status_code |-> resp.status_code,
     status_message |-> resp.status_message, body |-> resp.body,
     content_length |-> DictGet(resp.headers, "Content-Length")]

\* C17: whatever requests were processed before, the request handled gets
\* the answer a server with no history gives it against the same record
\* source: the same protocol version, which is the one of the request, the
\* same status code, status message, body and Content-Length, or the same
\* exception.
C17_AnswerIndependentOfHistory ==
    Handled
        => /\ failure = FirstAnswer.exc
           /\ pc = "send"
                => /\ Core(response) = Core(FirstAnswer.response)
                   /\ response.http_version = request.http_version

C17_Witness ==
    /\ pc = "send"
    /\ nreceived = 2
    /\ nsent = 1
    /\ request.http_version = "HTTP/1.0"
    /\ response.http_version = "HTTP/1.0"
    /\ response.status_code = 200
    /\ response.body = "[-1, 2]"

\* C18: the route table is never modified: in every state, whatever
\* requests were answered with 200, 404 or 405 or ended the loop, it maps
\* exactly headers to GET, movies to GET and sort to POST, each to the
\* handler the constructor bound, and no step changes it.
C18_RouteTableUnchanged ==
    /\ [](/\ DOMAIN collections = {"headers", "movies", "sort"}
          /\ DOMAIN collections["headers"] = {"GET"}
          /\ DOMAIN collections["movies"] = {"GET"}
          /\ DOMAIN collections["sort"] = {"POST"}
          /\ collections["headers"]["GET"] = "get_request_headers"
          /\ collections["movies"]["GET"] = "search_movie_title"
          /\ collections["sort"]["POST"] = "sort_numbers")
    /\ [][collections' = collections]_vars

C18_Witness ==
    /\ pc = "recieve"
    /\ nsent = 2
    /\ StatusLine(data) = "HTTP/1.1 405 Not Allowed"
    /\ DOMAIN collections = {"headers", "movies", "sort"}
    /\ collections["sort"]["POST"] = "sort_numbers"

\* C19: the data sent ends, after the blank line that ends the headers,
\* with the body and one CRLF that Content-Length does not count: the
\* number of characters after the blank line is Content-Length + 2, for the
\* Content-Length of the response and the one written on the wire.
C19_BodyLineIsContentLengthPlusTwo ==
    data # ""
        => /\ Len(SentAfterHeaders(data)) = ContentLength.v + 2
           /\ SentAfterHeaders(data) = response.body \o CRLF
           /\ \E i \in 1..Len(SentHeaderLines(data)) :
                 SentHeaderLines(data)[i]
                    = "Content-Length: " \o IntStr(Len(SentAfterHeaders(data)) - 2)

C19_Witness ==
    /\ data # ""
    /\ response.status_code = 404
    /\ ContentLength = PyInt(9)
    /\ SentAfterHeaders(data) = "Not Found\r\n"
    /\ Len(SentAfterHeaders(data)) = 11

====
